---- MODULE Spec2Model ----
(***************************************************************************)
(* Model of the statistics / tolerant-parsing core of pqc-tls-bench:       *)
(*   scripts/summarize_results.py  (to_float, is_trueish, clean, mean_std, *)
(*                                  median, bootstrap_ci, f, main)         *)
(*   scripts/parse_sig_speed.py    (is_num, parse_pqc_row,                 *)
(*                                  parse_ecdsap256, main)                 *)
(*                                                                         *)
(* Text is modelled at the character level (sequences of one-character     *)
(* strings); Python floats are modelled as exact rationals n/d with an     *)
(* overflow threshold FloatMax, plus the IEEE specials nan, inf and -inf.  *)
(* Rounding of the mantissa is not modelled, overflow and the specials are.*)
(***************************************************************************)
EXTENDS Integers, Sequences, FiniteSets, TLC

VARIABLES
    cpc, cx, cres,                       \* to_float: position, input, result
    epc, etoks, estyle, etext, ealg, eres, eexit, eout, \* parse_sig_speed.py: one run
    spc, svals, sstat, siters, salpha, sstats, srng, sms, sci,  \* mean_std / bootstrap_ci
    mpc, mfiles, mrng, mout, mjs, mdisk  \* summarize_results.py main

coerceVars  == <<cpc, cx, cres>>
extractVars == <<epc, etoks, estyle, etext, ealg, eres, eexit, eout>>
statsVars   == <<spc, svals, sstat, siters, salpha, sstats, srng, sms, sci>>
mainVars    == <<mpc, mfiles, mrng, mout, mjs, mdisk>>
vars == <<coerceVars, extractVars, statsVars, mainVars>>

(***************************************************************************)
(* Bounds of the model.                                                    *)
(***************************************************************************)
FloatMax  == 100   \* stand-in for sys.float_info.max: larger magnitudes overflow
MaxPieces == 3     \* text fragments concatenated into one to_float input
MaxLen    == 3     \* entries of a series handed to mean_std / bootstrap_ci
MaxIters  == 2     \* the iters argument of bootstrap_ci ranges over 0..MaxIters
MaxLines  == 2     \* lines of the raw openssl speed output
MaxRows   == 2     \* data rows of a csv file of the run directory
DefaultIters == 2  \* stand-in for bootstrap_ci's default iters=2000

(***************************************************************************)
(* Python floats.                                                          *)
(***************************************************************************)
NaN    == [k |-> "nan",  n |-> 0, d |-> 1]
PInf   == [k |-> "inf",  n |-> 0, d |-> 1]
NInf   == [k |-> "ninf", n |-> 0, d |-> 1]
\* The outcome "an exception propagated" of an operation that yields a float.
Raised == [k |-> "raise", n |-> 0, d |-> 1]

Abs(x) == IF x < 0 THEN -x ELSE x

RECURSIVE Gcd(_, _)
Gcd(a, b) == IF b = 0 THEN a ELSE Gcd(b, a % b)

\* The finite float n/d (d > 0), in lowest terms.
Fin(n, d) ==
    LET g == Gcd(Abs(n), d)
    IN  [k |-> "fin", n |-> n \div g, d |-> d \div g]

\* The float nearest to the real n/d: finite within the range, else +-inf.
RoundF(n, d) ==
    IF n > FloatMax * d THEN PInf
    ELSE IF -n > FloatMax * d THEN NInf
    ELSE Fin(n, d)

isnan(x)    == x.k = "nan"
isfinite(x) == x.k = "fin"

Rank(x) == CASE x.k = "ninf" -> -1 [] x.k = "inf" -> 1 [] OTHER -> 0

\* IEEE a < b: every comparison with nan is false.
FLess(a, b) ==
    /\ ~isnan(a) /\ ~isnan(b)
    /\ \/ Rank(a) < Rank(b)
       \/ isfinite(a) /\ isfinite(b) /\ a.n * b.d < b.n * a.d

FLeq(a, b) ==
    /\ ~isnan(a) /\ ~isnan(b)
    /\ \/ Rank(a) < Rank(b)
       \/ a.k = b.k /\ a.n * b.d <= b.n * a.d

\* IEEE a + b.
FAdd(a, b) ==
    IF isnan(a) \/ isnan(b) THEN NaN
    ELSE IF ~isfinite(a) /\ ~isfinite(b) THEN (IF a.k = b.k THEN a ELSE NaN)
    ELSE IF ~isfinite(a) THEN a
    ELSE IF ~isfinite(b) THEN b
    ELSE RoundF(a.n * b.d + b.n * a.d, a.d * b.d)

\* IEEE a / m for an integer m > 0.
FDivInt(a, m) == IF isfinite(a) THEN Fin(a.n, a.d * m) ELSE a

(***************************************************************************)
(* Python str, as sequences of characters.                                 *)
(***************************************************************************)
IsSpace(c) == c \in {" ", "\t"}

UpperCase == <<"A","B","C","D","E","F","G","H","I","J","K","L","M",
               "N","O","P","Q","R","S","T","U","V","W","X","Y","Z">>
LowerCase == <<"a","b","c","d","e","f","g","h","i","j","k","l","m",
               "n","o","p","q","r","s","t","u","v","w","x","y","z">>

LowerChar(c) ==
    IF \E i \in 1..26 : UpperCase[i] = c
    THEN LowerCase[CHOOSE i \in 1..26 : UpperCase[i] = c]
    ELSE c

\* str.lower()
RECURSIVE lower(_)
lower(s) == IF s = <<>> THEN <<>> ELSE <<LowerChar(Head(s))>> \o lower(Tail(s))

RECURSIVE LStrip(_)
LStrip(s) == IF s # <<>> /\ IsSpace(Head(s)) THEN LStrip(Tail(s)) ELSE s

RECURSIVE RStrip(_)
RStrip(s) ==
    IF s # <<>> /\ IsSpace(s[Len(s)]) THEN RStrip(SubSeq(s, 1, Len(s) - 1)) ELSE s

\* str.strip()
strip(s) == RStrip(LStrip(s))

\* s.startswith(p)
startswith(s, p) == Len(p) <= Len(s) /\ SubSeq(s, 1, Len(p)) = p

\* p in s
contains(s, p) ==
    \E i \in 1..(Len(s) - Len(p) + 1) : SubSeq(s, i, i + Len(p) - 1) = p

RECURSIVE Concat(_)
Concat(ss) == IF ss = <<>> THEN <<>> ELSE Head(ss) \o Concat(Tail(ss))

(***************************************************************************)
(* float(str): Python's float literal grammar                              *)
(*   [ws] [sign] (inf | infinity | nan | digits [. digits] [e [sign] digits]) [ws] *)
(* (underscore digit grouping is not in the model's alphabet).             *)
(***************************************************************************)
DigitChars == <<"0","1","2","3","4","5","6","7","8","9">>
IsDigit(c) == \E i \in 1..10 : DigitChars[i] = c
DigitVal(c) == (CHOOSE i \in 1..10 : DigitChars[i] = c) - 1

RECURSIVE DigitPrefixLen(_)
DigitPrefixLen(s) ==
    IF s # <<>> /\ IsDigit(Head(s)) THEN 1 + DigitPrefixLen(Tail(s)) ELSE 0

\* Value of a digit string read after the digits `acc`.
RECURSIVE DigitsVal(_, _)
DigitsVal(ds, acc) ==
    IF ds = <<>> THEN acc
    ELSE DigitsVal(Tail(ds), acc * 10 + DigitVal(Head(ds)))

\* m * 10^e for m >= 0 as a float, overflowing to inf.
RECURSIVE ScalePow10(_, _, _)
ScalePow10(n, d, e) ==
    IF n = 0 THEN Fin(0, 1)
    ELSE IF e < 0 THEN ScalePow10(n, d * 10, e + 1)
    ELSE IF n > FloatMax * d THEN PInf
    ELSE IF e = 0 THEN Fin(n, d)
    ELSE ScalePow10(n * 10, d, e - 1)

FNeg(x) ==
    CASE x.k = "inf"  -> NInf
      [] x.k = "ninf" -> PInf
      [] x.k = "fin"  -> Fin(-x.n, x.d)
      [] OTHER        -> x

Only(S) == CHOOSE r \in S : TRUE

\* The exponent part of b after position p: <<present, negative, digits, end, value>>.
ExpPart(b, p) ==
    IF p < Len(b) /\ b[p + 1] \in {"e", "E"}
    THEN Only({ Only({ <<TRUE, p + 1 < Len(b) /\ b[p + 2] = "-", el, q + el,
                         DigitsVal(SubSeq(b, q + 1, q + el), 0)>>
                  : el \in { DigitPrefixLen(SubSeq(b, q + 1, Len(b))) } })
           : q \in { IF p + 1 < Len(b) /\ b[p + 2] \in {"+", "-"} THEN p + 2 ELSE p + 1 } })
    ELSE <<FALSE, FALSE, 0, p, 0>>

\* The unsigned decimal literal b; Raised is ValueError.
ParseDecimal(b) ==
    Only({ Only({ Only({
        IF il + fl = 0 THEN Raised
        ELSE IF ex[1] /\ ex[3] = 0 THEN Raised
        ELSE IF ex[4] # Len(b) THEN Raised
        ELSE ScalePow10(DigitsVal(SubSeq(b, 1, il) \o SubSeq(b, il + 2, il + 1 + fl), 0), 1,
                        (IF ex[2] THEN -ex[5] ELSE ex[5]) - fl)
      : ex \in { ExpPart(b, il + (IF il < Len(b) /\ b[il + 1] = "." THEN 1 + fl ELSE 0)) } })
      : fl \in { IF il < Len(b) /\ b[il + 1] = "."
                 THEN DigitPrefixLen(SubSeq(b, il + 2, Len(b))) ELSE 0 } })
      : il \in { DigitPrefixLen(b) } })

Chars_inf      == <<"i","n","f">>
Chars_infinity == <<"i","n","f","i","n","i","t","y">>
Chars_nan      == <<"n","a","n">>

\* float(s) for a str s; Raised is ValueError.
FloatOfStr(s) ==
    LET t == strip(s)
        signed == t # <<>> /\ Head(t) \in {"+", "-"}
        neg == t # <<>> /\ Head(t) = "-"
        b == IF signed THEN Tail(t) ELSE t
        lb == lower(b)
        mag == IF lb = Chars_inf \/ lb = Chars_infinity THEN PInf
               ELSE IF lb = Chars_nan THEN NaN
               ELSE ParseDecimal(b)
    IN  IF neg THEN FNeg(mag) ELSE mag

(***************************************************************************)
(* Python values handed to to_float / is_trueish: None, a str, a number,   *)
(* or some other object (for which float() raises TypeError).              *)
(***************************************************************************)
None      == [t |-> "none", s |-> <<>>, v |-> NaN]
StrVal(s) == [t |-> "str",  s |-> s,    v |-> NaN]
NumVal(v) == [t |-> "num",  s |-> <<>>, v |-> v]
ObjVal    == [t |-> "obj",  s |-> <<>>, v |-> NaN]

\* float(x)
PyFloat(x) ==
    CASE x.t = "str" -> FloatOfStr(x.s)
      [] x.t = "num" -> x.v
      [] OTHER       -> Raised          \* float(None), float([]) : TypeError

\* The tuple of to_float's membership test.
MissingTokens == { <<>>, <<"n","a","n">>, <<"n","a">>, <<"n","o","n","e">> }

\* The body of to_float's try block.
to_float_try(x) ==
    IF x.t = "none" THEN NaN
    ELSE IF x.t = "str" /\ lower(strip(x.s)) \in MissingTokens THEN NaN
    ELSE PyFloat(x)

\* to_float without its except clause.
to_float_no_except(x) == to_float_try(x)

to_float(x) ==
    LET r == to_float_try(x)
    IN  IF r = Raised THEN NaN ELSE r   \* except Exception: return nan

(***************************************************************************)
(* list.sort() / sorted() on floats: CPython's listsort for fewer than 64  *)
(* elements (count_run, then binarysort), with the IEEE "<" it calls.      *)
(***************************************************************************)
Reverse(s) == [i \in 1..Len(s) |-> s[Len(s) + 1 - i]]

\* count_run's loops: the end of the run that starts at position 1.
RECURSIVE RunEnd(_, _, _)
RunEnd(s, i, desc) ==
    IF i > Len(s) THEN Len(s)
    ELSE IF FLess(s[i], s[i - 1]) = desc THEN RunEnd(s, i + 1, desc)
    ELSE i - 1

\* binarysort's search for the pivot's place in s[l..r-1].
RECURSIVE BinPlace(_, _, _, _)
BinPlace(s, pivot, l, r) ==
    IF l >= r THEN l
    ELSE LET p == l + ((r - l) \div 2)
         IN  IF FLess(pivot, s[p]) THEN BinPlace(s, pivot, l, p)
             ELSE BinPlace(s, pivot, p + 1, r)

RECURSIVE BinarySort(_, _)
BinarySort(s, start) ==
    IF start > Len(s) THEN s
    ELSE LET pivot == s[start]
             l == BinPlace(s, pivot, 1, start)
             moved == SubSeq(s, 1, l - 1) \o <<pivot>> \o SubSeq(s, l, start - 1)
                         \o SubSeq(s, start + 1, Len(s))
         IN  BinarySort(moved, start + 1)

PySort(s) ==
    IF Len(s) < 2 THEN s
    ELSE LET desc == FLess(s[2], s[1])
             n == RunEnd(s, 3, desc)
             run == SubSeq(s, 1, n)
             s1 == (IF desc THEN Reverse(run) ELSE run) \o SubSeq(s, n + 1, Len(s))
         IN  BinarySort(s1, n + 1)

(***************************************************************************)
(* The statistics module, as summarize_results.py uses it (CPython 3.11).  *)
(***************************************************************************)
RatAdd(a, b) == Fin(a.n * b.d + b.n * a.d, a.d * b.d)
RatMul(a, b) == Fin(a.n * b.n, a.d * b.d)

\* _sum's exact partial sums of the finite values (as a fraction).
RECURSIVE SumFinite(_)
SumFinite(s) ==
    IF s = <<>> THEN Fin(0, 1)
    ELSE IF isfinite(Head(s)) THEN RatAdd(Head(s), SumFinite(Tail(s)))
    ELSE SumFinite(Tail(s))

RECURSIVE SumSquares(_)
SumSquares(s) ==
    IF s = <<>> THEN Fin(0, 1)
    ELSE RatAdd(RatMul(Head(s), Head(s)), SumSquares(Tail(s)))

\* _sum's partials[None]: the float sum of the non-finite values, in order.
RECURSIVE SumSpecial(_, _)
SumSpecial(s, acc) ==
    IF s = <<>> THEN acc
    ELSE IF isfinite(Head(s)) THEN SumSpecial(Tail(s), acc)
    ELSE SumSpecial(Tail(s), IF acc = Fin(0, 1) THEN Head(s) ELSE FAdd(acc, Head(s)))

HasSpecial(s) == \E i \in 1..Len(s) : ~isfinite(s[i])

\* statistics.mean(data), data non-empty.
stat_mean(data) ==
    IF HasSpecial(data) THEN SumSpecial(data, Fin(0, 1))    \* inf, -inf or nan
    ELSE LET t == SumFinite(data) IN Fin(t.n, t.d * Len(data))

IsSquare(x) == \E r \in 0..x : r * r = x
IntSqrt(x) == CHOOSE r \in 0..x : r * r = x

\* The float square root of n/d; an irrational root is kept as the term sqrt(n/d).
FSqrt(n, d) ==
    IF IsSquare(n) /\ IsSquare(d) THEN Fin(IntSqrt(n), IntSqrt(d))
    ELSE [k |-> "sqrt", n |-> n, d |-> d]

\* statistics.pstdev(data), data non-empty: _ss reads `.numerator` of a float when
\* the data holds inf or -inf, which raises AttributeError.
stat_pstdev(data) ==
    IF HasSpecial(data) THEN Raised
    ELSE LET cnt == Len(data)
             sx == SumFinite(data)
             sxx == SumSquares(data)
             \* ssd = (count * sxx - sx * sx) / count ; mss = ssd / n
             num == RatAdd(Fin(cnt * sxx.n, sxx.d), Fin(-(sx.n * sx.n), sx.d * sx.d))
             mss == Fin(num.n, num.d * cnt * cnt)
         IN  FSqrt(mss.n, mss.d)

\* statistics.median(data), data non-empty.
stat_median(data) ==
    LET srt == PySort(data)
        n == Len(srt)
        i == n \div 2
    IN  IF n % 2 = 1 THEN srt[i + 1]
        ELSE FDivInt(FAdd(srt[i], srt[i + 1]), 2)

(***************************************************************************)
(* summarize_results.py                                                    *)
(***************************************************************************)
\* is_trueish's tuple.
TruthyTokens == { <<"1">>, <<"t","r","u","e">>, <<"y","e","s">>, <<"y">>, <<"o","k">> }

\* str(x) for the values a csv cell can be.
PyStr(x) == IF x.t = "str" THEN x.s ELSE <<"N","o","n","e">>

is_trueish(x) ==
    IF x.t = "none" THEN TRUE
    ELSE LET s == lower(strip(PyStr(x)))
         IN  IF s = <<>> THEN TRUE ELSE s \in TruthyTokens

\* A clean that keeps every entry.
clean_keep_all(vals) == vals

clean(vals) == LET NotNan(v) == ~isnan(v) IN SelectSeq(vals, NotNan)

\* mean_std(vals): <<mean, std>>; <<Raised, Raised>> when pstdev raises.
mean_std(vals) ==
    LET c == clean(vals)
    IN  IF c = <<>> THEN <<NaN, NaN>>
        ELSE IF Len(c) = 1 THEN <<c[1], Fin(0, 1)>>
        ELSE IF stat_pstdev(c) = Raised THEN <<Raised, Raised>>
        ELSE <<stat_mean(c), stat_pstdev(c)>>

median(vals) ==
    LET c == clean(vals)
    IN  IF c = <<>> THEN NaN ELSE stat_median(c)

\* One pass of bootstrap_ci's loop: the statistic of the resample drawn by the
\* indices idxs (each a value of rng.randrange(n)).
BootStat(vals, stat, idxs) ==
    LET sample == [i \in 1..Len(idxs) |-> vals[idxs[i] + 1]]
    IN  IF stat = "median" THEN stat_median(sample) ELSE stat_mean(sample)

\* lo_idx and hi_idx of bootstrap_ci, alpha = alpha[1] / alpha[2].
LoIdxRaw(iters, alpha) == (alpha[1] * iters) \div (2 * alpha[2])
HiIdxRaw(iters, alpha) == (((2 * alpha[2] - alpha[1]) * iters) \div (2 * alpha[2])) - 1
Max2(a, b) == IF a > b THEN a ELSE b
Min2(a, b) == IF a < b THEN a ELSE b
Clamp(iters, i) == Max2(0, Min2(iters - 1, i))
LoIdx(iters, alpha) == Clamp(iters, LoIdxRaw(iters, alpha))
HiIdx(iters, alpha) == Clamp(iters, HiIdxRaw(iters, alpha))

\* Python's stats[i] for i >= -len: IndexError past the end.
PyIndex(s, i) ==
    IF i >= 0 /\ i < Len(s) THEN s[i + 1]
    ELSE IF i < 0 /\ -i <= Len(s) THEN s[Len(s) + i + 1]
    ELSE Raised

\* The tail of bootstrap_ci: sort the recorded statistics and pick the bounds.
CIBounds(stats, iters, alpha) ==
    LET srt == PySort(stats)
        lo == PyIndex(srt, LoIdx(iters, alpha))
        hi == PyIndex(srt, HiIdx(iters, alpha))
    IN  IF lo = Raised \/ hi = Raised THEN <<Raised, Raised>> ELSE <<lo, hi>>

\* bootstrap_ci(vals, stat, iters, alpha, seed), the generator's output for the
\* seed given as draws: one tuple of randrange(n) values per iteration.
bootstrap_ci(vals, stat, iters, alpha, draws) ==
    LET c == clean(vals)
    IN  IF Len(c) < 2 THEN <<NaN, NaN>>
        ELSE CIBounds([i \in 1..iters |-> BootStat(c, stat, draws[i])], iters, alpha)

(***************************************************************************)
(* parse_sig_speed.py                                                      *)
(***************************************************************************)
\* str.splitlines(), for the line break "\n".
RECURSIVE SplitLinesFrom(_, _)
SplitLinesFrom(text, cur) ==
    IF text = <<>> THEN (IF cur = <<>> THEN <<>> ELSE <<cur>>)
    ELSE IF Head(text) = "\n" THEN <<cur>> \o SplitLinesFrom(Tail(text), <<>>)
    ELSE SplitLinesFrom(Tail(text), Append(cur, Head(text)))

splitlines(text) == SplitLinesFrom(text, <<>>)

\* str.split(): the maximal runs of non-whitespace characters.
RECURSIVE SplitFrom(_, _)
SplitFrom(s, cur) ==
    IF s = <<>> THEN (IF cur = <<>> THEN <<>> ELSE <<cur>>)
    ELSE IF IsSpace(Head(s))
         THEN (IF cur = <<>> THEN <<>> ELSE <<cur>>) \o SplitFrom(Tail(s), <<>>)
    ELSE SplitFrom(Tail(s), Append(cur, Head(s)))

split(s) == SplitFrom(s, <<>>)

is_num(x) == FloatOfStr(x) # Raised

\* nums = [p for p in parts if is_num(p)]
NumsOf(parts) == SelectSeq(parts, is_num)

\* The result None of the two parsers.
NotFound == <<>>

\* return nums[0], nums[1], nums[2]
pqc_result_first3(nums) == <<nums[1], nums[2], nums[3]>>

\* return nums[-3], nums[-2], nums[-1]
pqc_result(nums) == <<nums[Len(nums) - 2], nums[Len(nums) - 1], nums[Len(nums)]>>

\* parse_pqc_row's loop over the lines.
RECURSIVE pqc_scan(_, _)
pqc_scan(lines, alg) ==
    IF lines = <<>> THEN NotFound
    ELSE LET parts == split(strip(Head(lines)))
             nums == NumsOf(parts)
         IN  IF parts # <<>> /\ parts[1] = alg /\ Len(nums) >= 3
             THEN pqc_result(nums)
             ELSE pqc_scan(Tail(lines), alg)

parse_pqc_row(text, alg) == pqc_scan(splitlines(text), alg)

Chars_ecdsap256  == <<"e","c","d","s","a","p","2","5","6">>
Chars_ecdsa      == <<"e","c","d","s","a">>
\* The curve names of try 2's pattern.
Chars_curves     == { <<"n","i","s","t","p","2","5","6">>,
                      <<"p","r","i","m","e","2","5","6","v","1">>,
                      <<"s","e","c","p","2","5","6","r","1">> }

\* return "", nums[-3], nums[-1]: a key-generation column read off the row.
ecdsa_result_with_keygen(nums) ==
    <<IF Len(nums) >= 3 THEN nums[Len(nums) - 2] ELSE <<>>,
      nums[Len(nums) - 1], nums[Len(nums)]>>

\* return "", nums[-2], nums[-1]
ecdsa_result(nums) == <<<<>>, nums[Len(nums) - 1], nums[Len(nums)]>>

\* Try 1's test of a line: line.strip().startswith("ecdsap256")
Match1(line) == startswith(strip(line), Chars_ecdsap256)

\* Try 2's test: re.compile(r"(ecdsa).*?(nistp256|prime256v1|secp256r1).*")
\*                  .search(line.lower())
Match2(line) ==
    LET low == lower(line)
        At(i, p) == i + Len(p) - 1 <= Len(low) /\ SubSeq(low, i, i + Len(p) - 1) = p
    IN  \E i \in 1..Len(low) :
            /\ At(i, Chars_ecdsa)
            /\ \E j \in (i + 5)..Len(low) :
                   \E c \in Chars_curves : At(j, c)

\* Try 3's test: "ecdsa" in low and ("256" in low or "p-256" in low)
Match3(line) ==
    LET low == lower(line)
    IN  contains(low, Chars_ecdsa) /\ (contains(low, <<"2","5","6">>) \/ contains(low, <<"p","-","2","5","6">>))

\* One of parse_ecdsap256's three loops: the first line that passes the test
\* and has two numeric tokens.
RECURSIVE ecdsa_scan(_, _)
ecdsa_scan(lines, k) ==
    IF lines = <<>> THEN NotFound
    ELSE LET line == Head(lines)
             hit == CASE k = 1 -> Match1(line) [] k = 2 -> Match2(line) [] OTHER -> Match3(line)
             nums == NumsOf(split(strip(line)))
         IN  IF hit /\ Len(nums) >= 2 THEN ecdsa_result(nums)
             ELSE ecdsa_scan(Tail(lines), k)

\* A parse_ecdsap256 with one loop that applies the three tests to each line.
RECURSIVE ecdsa_scan_single_pass(_)
ecdsa_scan_single_pass(lines) ==
    IF lines = <<>> THEN NotFound
    ELSE LET line == Head(lines)
             nums == NumsOf(split(strip(line)))
         IN  IF (Match1(line) \/ Match2(line) \/ Match3(line)) /\ Len(nums) >= 2
             THEN ecdsa_result(nums)
             ELSE ecdsa_scan_single_pass(Tail(lines))

parse_ecdsap256_single_pass(text) == ecdsa_scan_single_pass(splitlines(text))

parse_ecdsap256(text) ==
    LET lines == splitlines(text)
        try1 == ecdsa_scan(lines, 1)
        try2 == ecdsa_scan(lines, 2)
    IN  IF try1 # NotFound THEN try1
        ELSE IF try2 # NotFound THEN try2
        ELSE ecdsa_scan(lines, 3)

(***************************************************************************)
(* Sequences over a set, up to a length.                                   *)
(***************************************************************************)
SeqsUpTo(S, n) == UNION { [1..m -> S] : m \in 0..n }

IdleCoerce  == cpc = "idle" /\ cx = None /\ cres = NaN
IdleExtract == epc = "idle" /\ etoks = <<>> /\ estyle = 0 /\ etext = <<>>
               /\ ealg = <<>> /\ eres = <<>> /\ eexit = 0 /\ eout = <<>>
IdleStats   == spc = "idle" /\ svals = <<>> /\ sstat = "mean" /\ siters = 0
               /\ salpha = <<1, 1>> /\ sstats = <<>> /\ srng = 0
               /\ sms = <<NaN, NaN>> /\ sci = <<NaN, NaN>>
IdleMain    == mpc = "idle" /\ mfiles = <<>> /\ mrng = <<>> /\ mout = <<>> /\ mjs = <<>>
               /\ mdisk = <<>>

(***************************************************************************)
(* to_float applied to one value.                                          *)
(***************************************************************************)
Pieces == { <<" ">>, <<"n","a">>, <<"n">>, <<"N","O">>, <<"n","e">>, <<"n","u">>,
            <<"L","L">>, <<"1">>, <<".">>, <<"5">>, <<"e">>, <<"-">>,
            <<"i","n","f">> }


CoerceInputs ==
    {None, ObjVal, NumVal(NaN), NumVal(PInf), NumVal(Fin(3, 2))}
        \cup { StrVal(Concat(ps)) : ps \in SeqsUpTo(Pieces, MaxPieces) }

InitCoerce ==
    /\ cpc = "call" /\ cx \in CoerceInputs /\ cres = NaN
    /\ IdleExtract /\ IdleStats /\ IdleMain

Coerce ==
    /\ cpc = "call"
    /\ cres' = to_float(cx)
    /\ cpc' = IF to_float(cx) = Raised THEN "raised" ELSE "returned"
    /\ UNCHANGED <<cx, extractVars, statsVars, mainVars>>

NextCoerce == Coerce
SpecCoerce == InitCoerce /\ [][NextCoerce]_vars

(***************************************************************************)
(* parse_sig_speed.py run on one raw file and one --alg argument.          *)
(***************************************************************************)
\* The tokens the lines of a raw file are made of.
Tok ==
    [ecdsap256 |-> Chars_ecdsap256,
     ECDSA     |-> <<"E","C","D","S","A">>,
     nistp256  |-> <<"(","n","i","s","t","p","2","5","6",")">>,
     bits256   |-> <<"2","5","6","-","b","i","t">>,
     mldsa65   |-> <<"m","l","d","s","a","6","5">>,
     mldsa65x  |-> <<"m","l","d","s","a","6","5","x">>,
     sign      |-> <<"s","i","g","n">>,
     ops       |-> <<"o","p","s">>,
     n1        |-> <<"1","0">>,
     n2        |-> <<"2",".","5">>,
     n3        |-> <<"3","e","1">>,
     n4        |-> <<"4">>]

\* How a line of the raw output starts ...
LineHeads == { <<Tok.ecdsap256>>, <<Tok.ECDSA, Tok.nistp256>>,
               <<Tok.bits256, Tok.ECDSA>>, <<Tok.mldsa65>>, <<Tok.mldsa65x>>,
               <<Tok.sign, Tok.mldsa65>> }
\* ... and how it goes on.
LineTails == { <<Tok.n1>>, <<Tok.n1, Tok.n2>>,
               <<Tok.n1, Tok.ops, Tok.n2, Tok.n3>>,
               <<Tok.n1, Tok.n2, Tok.n3, Tok.n4>> }
\* The lines of a raw file: blank, or a head and a tail.
TokenLines == { <<>> } \cup { h \o t : h \in LineHeads, t \in LineTails }

\* The values of --alg.
AlgArgs == { Chars_ecdsap256, <<" ">> \o Tok.mldsa65 \o <<" ">> }

RECURSIVE Join(_, _)
Join(ss, sep) ==
    IF ss = <<>> THEN <<>>
    ELSE IF Len(ss) = 1 THEN ss[1]
    ELSE ss[1] \o sep \o Join(Tail(ss), sep)

\* The file's text: style 1 separates tokens by one space and lines by "\n";
\* style 2 indents, separates by space and tab, pads the end of each line and
\* ends the file with "\n".
RenderLine(toks, style) ==
    IF style = 1 THEN Join(toks, <<" ">>)
    ELSE <<" ", " ">> \o Join(toks, <<" ", "\t">>) \o <<" ">>

Render(lines, style) ==
    LET rl == [i \in 1..Len(lines) |-> RenderLine(lines[i], style)]
    IN  IF style = 1 THEN Join(rl, <<"\n">>)
        ELSE Concat([i \in 1..Len(rl) |-> rl[i] \o <<"\n">>])

InitExtract ==
    /\ epc = "call"
    /\ etoks \in SeqsUpTo(TokenLines, MaxLines)
    /\ estyle \in {1, 2}
    /\ etext = Render(etoks, estyle)
    /\ ealg \in AlgArgs
    /\ eres = NotFound /\ eexit = 0 /\ eout = <<>>
    /\ IdleCoerce /\ IdleStats /\ IdleMain

\* The print of main: f"{keygen},{sign},{verify}"
CsvFragment(r) == r[1] \o <<",">> \o r[2] \o <<",">> \o r[3]

\* main(): pick the parser by --alg, exit 2 when no row is found, exit 3 on a
\* non-numeric field, else print the CSV fragment.
ExtractMain ==
    /\ epc = "call"
    /\ LET alg == strip(ealg)
           bad(x) == x # <<>> /\ ~is_num(x)
       IN  \E out \in { IF alg = Chars_ecdsap256 THEN parse_ecdsap256(etext)
                        ELSE parse_pqc_row(etext, alg) } :
              /\ eres' = out
              /\ IF out = NotFound
                 THEN eexit' = 2 /\ eout' = <<>>
                 ELSE IF bad(out[1]) \/ bad(out[2]) \/ bad(out[3])
                 THEN eexit' = 3 /\ eout' = <<>>
                 ELSE eexit' = 0 /\ eout' = CsvFragment(out)
    /\ epc' = "exited"
    /\ UNCHANGED <<etoks, estyle, etext, ealg, coerceVars, statsVars, mainVars>>

NextExtract == ExtractMain
SpecExtract == InitExtract /\ [][NextExtract]_vars

(***************************************************************************)
(* mean_std and bootstrap_ci applied to one series.                        *)
(***************************************************************************)
SeriesValues == {NaN, NInf, PInf, Fin(1, 1), Fin(FloatMax, 1)}
Alphas == { <<5, 100>>, <<2, 1>> }     \* 0.05 (the default) and 2.0
DefaultAlpha == <<5, 100>>

InitStats ==
    /\ spc = "call" /\ svals \in SeqsUpTo(SeriesValues, MaxLen)
    /\ sstat \in {"mean", "median"} /\ siters \in 0..MaxIters
    /\ salpha = DefaultAlpha   \* the keyword default, until the call binds it
    /\ sstats = <<>> /\ srng = 0 /\ sms = <<NaN, NaN>> /\ sci = <<NaN, NaN>>
    /\ IdleCoerce /\ IdleExtract /\ IdleMain

\* mean_std(svals)
MeanStd ==
    /\ spc = "call"
    /\ sms' = mean_std(svals)
    /\ spc' = IF mean_std(svals)[1] = Raised THEN "ms_raised" ELSE "ms_returned"
    /\ UNCHANGED <<svals, sstat, siters, salpha, sstats, srng, sci,
                   coerceVars, extractVars, mainVars>>

\* BootstrapEnter with the early return taken only for an empty series.
BootstrapEnter_only_empty ==
    /\ spc = "call"
    /\ \E a \in Alphas : salpha' = a
    /\ IF Len(clean(svals)) < 1
       THEN sci' = <<NaN, NaN>> /\ spc' = "ci_returned"
       ELSE sci' = sci /\ spc' = "ci_loop"
    /\ UNCHANGED <<svals, sstat, siters, sstats, srng, sms,
                   coerceVars, extractVars, mainVars>>

\* bootstrap_ci up to its loop: the early return, or the generator is seeded.
BootstrapEnter ==
    /\ spc = "call"
    /\ \E a \in Alphas : salpha' = a
    /\ IF Len(clean(svals)) < 2
       THEN sci' = <<NaN, NaN>> /\ spc' = "ci_returned"
       ELSE sci' = sci /\ spc' = "ci_loop"
    /\ UNCHANGED <<svals, sstat, siters, sstats, srng, sms,
                   coerceVars, extractVars, mainVars>>

\* One iteration of the loop: n calls of rng.randrange(n), any outcome.
BootstrapIter ==
    /\ spc = "ci_loop"
    /\ Len(sstats) < siters
    /\ LET c == clean(svals)
           n == Len(c)
       IN  \E idxs \in [1..n -> 0..(n - 1)] :
              /\ sstats' = Append(sstats, BootStat(c, sstat, idxs))
              /\ srng' = srng + n
    /\ UNCHANGED <<spc, svals, sstat, siters, salpha, sms, sci,
                   coerceVars, extractVars, mainVars>>

\* After the loop: sort, index, return (or IndexError).
BootstrapReturn ==
    /\ spc = "ci_loop"
    /\ Len(sstats) = siters
    /\ sci' = CIBounds(sstats, siters, salpha)
    /\ spc' = IF CIBounds(sstats, siters, salpha)[1] = Raised
              THEN "ci_raised" ELSE "ci_returned"
    /\ UNCHANGED <<svals, sstat, siters, salpha, sstats, srng, sms,
                   coerceVars, extractVars, mainVars>>

NextStats == MeanStd \/ BootstrapEnter \/ BootstrapIter \/ BootstrapReturn
SpecStats == InitStats /\ [][NextStats]_vars

(***************************************************************************)
(* summarize_results.py main: csv rows, formatting, the three sections.    *)
(***************************************************************************)
\* r.get(k) on a csv.DictReader row: the row's keys are the header's columns.
RowGet(r, k) == IF k \in DOMAIN r THEN r[k] ELSE None

RECURSIVE Pow10(_)
Pow10(e) == IF e = 0 THEN 1 ELSE 10 * Pow10(e - 1)

\* The decimal digits of n >= 0.
RECURSIVE IntDigits(_)
IntDigits(n) ==
    IF n < 10 THEN <<DigitChars[n + 1]>>
    ELSE Append(IntDigits(n \div 10), DigitChars[(n % 10) + 1])

\* str(n) of an int, as an f-string renders it.
IntStr(n) == IF n < 0 THEN <<"-">> \o IntDigits(-n) ELSE IntDigits(n)

RECURSIVE ZeroPad(_, _)
ZeroPad(s, w) == IF Len(s) >= w THEN s ELSE ZeroPad(<<"0">> \o s, w)

\* n/d >= 0 scaled by 10^nd, rounded to the nearest integer, ties to even.
RoundScaled(n, d, nd) ==
    Only({ IF 2 * (q % d) > d \/ (2 * (q % d) = d /\ (q \div d) % 2 = 1)
           THEN (q \div d) + 1 ELSE q \div d
         : q \in { n * Pow10(nd) } })

\* The largest r in lo..hi-1 with r * r <= x.
RECURSIVE FloorSqrtIn(_, _, _)
FloorSqrtIn(x, lo, hi) ==
    IF hi - lo <= 1 THEN lo
    ELSE IF ((lo + hi) \div 2) * ((lo + hi) \div 2) <= x
         THEN FloorSqrtIn(x, (lo + hi) \div 2, hi)
         ELSE FloorSqrtIn(x, lo, (lo + hi) \div 2)

\* sqrt(n/d) scaled by 10^nd, rounded to the nearest integer.
RoundRoot(n, d, nd) ==
    Only({ Only({ IF (q \div d) > r * r + r
                     \/ ((q \div d) = r * r + r /\ 4 * (q % d) >= d)
                  THEN r + 1 ELSE r
                : r \in { FloorSqrtIn(q \div d, 0, Min2((q \div d) + 1, 46341)) } })
         : q \in { n * Pow10(2 * nd) } })

\* The text sign, integer part, ".", nd fraction digits of the scaled integer r.
FixedDigits(r, nd, neg) ==
    (IF neg THEN <<"-">> ELSE <<>>)
    \o IntDigits(r \div Pow10(nd)) \o <<".">> \o ZeroPad(IntDigits(r % Pow10(nd)), nd)

\* f"{x:.{nd}f}"
format_fixed(x, nd) ==
    CASE x.k = "nan"  -> <<"n","a","n">>
      [] x.k = "inf"  -> <<"i","n","f">>
      [] x.k = "ninf" -> <<"-","i","n","f">>
      [] x.k = "sqrt" -> FixedDigits(RoundRoot(x.n, x.d, nd), nd, FALSE)
      [] OTHER        -> FixedDigits(RoundScaled(Abs(x.n), x.d, nd), nd, x.n < 0)

\* f(x, nd)
f(x, nd) == IF isnan(x) THEN <<"n","a","n">> ELSE format_fixed(x, nd)

\* What json.dump writes for a float (allow_nan is left at its default).
JsonFloat(x) ==
    CASE x.k = "nan"  -> [tok |-> "NaN", v |-> x]
      [] x.k = "inf"  -> [tok |-> "Infinity", v |-> x]
      [] x.k = "ninf" -> [tok |-> "-Infinity", v |-> x]
      [] OTHER        -> [tok |-> "number", v |-> x]

\* IEEE a / b.
FDiv(a, b) ==
    IF isnan(a) \/ isnan(b) THEN NaN
    ELSE IF ~isfinite(a) /\ ~isfinite(b) THEN NaN
    ELSE IF ~isfinite(b) THEN Fin(0, 1)
    ELSE IF b.n = 0 THEN Raised                          \* ZeroDivisionError
    ELSE IF ~isfinite(a) THEN (IF b.n > 0 THEN a ELSE FNeg(a))
    ELSE IF b.n > 0 THEN RoundF(a.n * b.d, a.d * b.n)
    ELSE RoundF(-(a.n * b.d), a.d * (-b.n))

\* The code point order of the characters that occur in algorithm names.
CodeOrder == <<" ", "-", "0","1","2","3","4","5","6","7","8","9">> \o UpperCase \o <<"_">> \o LowerCase
Ord(c) == CHOOSE i \in 1..Len(CodeOrder) : CodeOrder[i] = c

\* a < b on str
RECURSIVE StrLess(_, _)
StrLess(a, b) ==
    IF b = <<>> THEN FALSE
    ELSE IF a = <<>> THEN TRUE
    ELSE IF Head(a) = Head(b) THEN StrLess(Tail(a), Tail(b))
    ELSE Ord(Head(a)) < Ord(Head(b))

\* sorted(keys) of a set of str
RECURSIVE sorted(_)
sorted(S) ==
    IF S = {} THEN <<>>
    ELSE Only({ <<m>> \o sorted(S \ {m})
              : m \in { CHOOSE x \in S : \A y \in S \ {x} : StrLess(x, y) } })

\* One line appended to `out` (or written to paper_tables.md): the section it
\* belongs to, which line of the section it is, and its interpolated fields.
OutLine(sec, line, cells) == [sec |-> sec, line |-> line, cells |-> cells]

\* The generator's output for seed 7, as a table: for each series length n the
\* randrange(n) values of each iteration.  The same seed is used by every call.
DrawsFor(table, vals) ==
    IF Len(clean(vals)) \in DOMAIN table THEN table[Len(clean(vals))] ELSE <<>>

\* n_valid, mean_std, median and the two bootstrap_ci calls main makes for one
\* series; every field is Raised when mean_std raises.
series_summary(vals, total, table) ==
    Only({ IF ms[1] = Raised
           THEN [total_rows |-> total, n |-> Len(clean(vals)),
                 mean |-> Raised, std |-> Raised, median |-> Raised,
                 ci95_mean |-> <<Raised, Raised>>, ci95_median |-> <<Raised, Raised>>]
           ELSE [total_rows |-> total, n |-> Len(clean(vals)),
                 mean |-> ms[1], std |-> ms[2], median |-> median(vals),
                 ci95_mean |-> bootstrap_ci(vals, "mean", DefaultIters, DefaultAlpha,
                                            DrawsFor(table, vals)),
                 ci95_median |-> bootstrap_ci(vals, "median", DefaultIters, DefaultAlpha,
                                              DrawsFor(table, vals))]
         : ms \in { mean_std(vals) } })

\* vals_raw of the throughput section.
RECURSIVE throughput_vals(_)
throughput_vals(rows) ==
    IF rows = <<>> THEN <<>>
    ELSE IF "ok" \in DOMAIN Head(rows) /\ ~is_trueish(RowGet(Head(rows), "ok"))
         THEN throughput_vals(Tail(rows))
    ELSE Only({ IF ~isnan(v) /\ FLess(Fin(0, 1), v)
                THEN <<v>> \o throughput_vals(Tail(rows))
                ELSE throughput_vals(Tail(rows))
              : v \in { to_float(RowGet(Head(rows), "conn_user_sec")) } })

throughput_lines(s) ==
    << OutLine("tls_throughput", "heading", <<>>),
       OutLine("tls_throughput", "valid_repeats", <<IntStr(s.n), IntStr(s.total_rows)>>),
       OutLine("tls_throughput", "mean",
               <<f(s.mean, 2), f(s.std, 2), f(s.ci95_mean[1], 2), f(s.ci95_mean[2], 2)>>),
       OutLine("tls_throughput", "median",
               <<f(s.median, 2), f(s.ci95_median[1], 2), f(s.ci95_median[2], 2)>>) >>

\* The throughput section for an existing tls_throughput.csv.
throughput_section(rows, table) ==
    Only({ [crashed |-> s.mean = Raised, out |-> throughput_lines(s), js |-> s]
         : s \in { series_summary(throughput_vals(rows), Len(rows), table) } })

\* [to_float(r.get(name)) for r in rows]
RECURSIVE Column(_, _)
Column(rows, name) ==
    IF rows = <<>> THEN <<>>
    ELSE <<to_float(RowGet(Head(rows), name))>> \o Column(Tail(rows), name)

LatencyMetrics == <<"p50_ms", "p95_ms", "p99_ms", "mean_ms">>

\* fr of the latency section: fail / (ok + fail) per repetition.
RECURSIVE fail_rates(_, _)
fail_rates(oks, fails) ==
    IF oks = <<>> \/ fails = <<>> THEN <<>>
    ELSE Only({ IF isnan(Head(oks)) \/ isnan(Head(fails)) THEN rest
                ELSE IF FLeq(FAdd(Head(oks), Head(fails)), Fin(0, 1)) THEN rest
                ELSE <<FDiv(Head(fails), FAdd(Head(oks), Head(fails)))>> \o rest
              : rest \in { fail_rates(Tail(oks), Tail(fails)) } })

latency_line(name, s) ==
    OutLine("tls_latency", name,
            <<IntStr(s.n), IntStr(s.total_rows), f(s.mean, 2), f(s.std, 2),
              f(s.ci95_mean[1], 2), f(s.ci95_mean[2], 2),
              f(s.median, 2), f(s.ci95_median[1], 2), f(s.ci95_median[2], 2)>>)

\* The fail-rate part: <<reported, fr_m>>.
fail_rate(rows) ==
    IF clean(Column(rows, "ok")) # <<>> /\ clean(Column(rows, "fail")) # <<>>
    THEN Only({ <<TRUE, IF fr # <<>> THEN stat_mean(fr) ELSE NaN>>
              : fr \in { fail_rates(Column(rows, "ok"), Column(rows, "fail")) } })
    ELSE <<FALSE, NaN>>

\* The latency section for an existing tls_latency_summary.csv.
latency_section(rows, table) ==
    Only({ Only({
        [crashed |-> \E i \in 1..4 : s[i].mean = Raised,
         out |-> << OutLine("tls_latency", "heading", <<>>),
                    OutLine("tls_latency", "reps", <<IntStr(Len(rows))>>),
                    latency_line("p50_ms", s[1]), latency_line("p95_ms", s[2]),
                    latency_line("p99_ms", s[3]), latency_line("mean_ms", s[4]),
                    IF fr[1] THEN OutLine("tls_latency", "fail_rate", <<f(fr[2], 3)>>)
                    ELSE OutLine("tls_latency", "fail_rate_not_reported", <<>>) >>,
         js |-> IF fr[1]
                THEN [p50_ms |-> s[1], p95_ms |-> s[2], p99_ms |-> s[3], mean_ms |-> s[4],
                      fail_rate_mean |-> fr[2]]
                ELSE [p50_ms |-> s[1], p95_ms |-> s[2], p99_ms |-> s[3], mean_ms |-> s[4]]]
      : fr \in { fail_rate(rows) } })
      : s \in { << series_summary(Column(rows, "p50_ms"), Len(rows), table),
                   series_summary(Column(rows, "p95_ms"), Len(rows), table),
                   series_summary(Column(rows, "p99_ms"), Len(rows), table),
                   series_summary(Column(rows, "mean_ms"), Len(rows), table) >> } })

\* (r.get("alg") or "").strip()
sig_alg(r) ==
    Only({ IF a.t = "str" THEN strip(a.s) ELSE <<>> : a \in { RowGet(r, "alg") } })

\* The rows appended to by_alg[alg], in file order.
AlgRows(rows, alg) == LET IsAlg(r) == sig_alg(r) = alg IN SelectSeq(rows, IsAlg)

\* {"n": len(clean(vals)), "mean": m, "std": s} of one column of one algorithm.
column_stat(vals) ==
    Only({ [n |-> Len(clean(vals)), mean |-> ms[1], std |-> ms[2]]
         : ms \in { mean_std(vals) } })

\* js["sig_speed"]["by_alg"][alg] from the rows of the algorithm.
alg_entry(rows) ==
    [keygens_s |-> column_stat(Column(rows, "keygens_s")),
     sign_s    |-> column_stat(Column(rows, "sign_s")),
     verify_s  |-> column_stat(Column(rows, "verify_s"))]

sig_row(alg, e) ==
    OutLine("sig_speed", "row",
            <<alg, f(e.keygens_s.mean, 1), f(e.keygens_s.std, 1),
              f(e.sign_s.mean, 1), f(e.sign_s.std, 1),
              f(e.verify_s.mean, 1), f(e.verify_s.std, 1),
              IntStr(Max2(Max2(e.sign_s.n, e.verify_s.n), e.keygens_s.n))>>)

RECURSIVE sig_rows(_, _)
sig_rows(keys, by_alg) ==
    IF keys = <<>> THEN <<>>
    ELSE <<sig_row(Head(keys), by_alg[Head(keys)])>> \o sig_rows(Tail(keys), by_alg)

\* The signature-speed section for an existing sig_speed.csv.
sig_section(rows) ==
    Only({ [crashed |-> \E a \in DOMAIN by_alg : \E c \in DOMAIN by_alg[a] :
                            by_alg[a][c].mean = Raised,
            out |-> << OutLine("sig_speed", "heading", <<>>),
                       OutLine("sig_speed", "table_header", <<>>),
                       OutLine("sig_speed", "table_rule", <<>>) >>
                    \o sig_rows(sorted(DOMAIN by_alg), by_alg)
                    \o << OutLine("sig_speed", "note", <<>>) >>,
            js |-> [total_rows |-> Len(rows), by_alg |-> by_alg]]
         : by_alg \in { [a \in { sig_alg(rows[i]) : i \in 1..Len(rows) } \ {<<>>}
                           |-> alg_entry(AlgRows(rows, a))] } })

\* json.dump of the values main stores.
DumpSummary(s) ==
    [total_rows |-> s.total_rows, n |-> s.n,
     mean |-> JsonFloat(s.mean), std |-> JsonFloat(s.std), median |-> JsonFloat(s.median),
     ci95_mean |-> <<JsonFloat(s.ci95_mean[1]), JsonFloat(s.ci95_mean[2])>>,
     ci95_median |-> <<JsonFloat(s.ci95_median[1]), JsonFloat(s.ci95_median[2])>>]

DumpStat(e) == [n |-> e.n, mean |-> JsonFloat(e.mean), std |-> JsonFloat(e.std)]

json_dump(js) ==
    [run_dir |-> js.run_dir,
     quality |-> js.quality,
     tls_throughput |->
        IF DOMAIN js.tls_throughput = {} THEN <<>> ELSE DumpSummary(js.tls_throughput),
     tls_latency |->
        IF DOMAIN js.tls_latency = {} THEN <<>>
        ELSE [k \in DOMAIN js.tls_latency |->
                 IF k = "fail_rate_mean" THEN JsonFloat(js.tls_latency[k])
                 ELSE DumpSummary(js.tls_latency[k])],
     sig_speed |->
        IF DOMAIN js.sig_speed = {} THEN <<>>
        ELSE [total_rows |-> js.sig_speed.total_rows,
              by_alg |-> [a \in DOMAIN js.sig_speed.by_alg |->
                            [c \in DOMAIN js.sig_speed.by_alg[a] |->
                                DumpStat(js.sig_speed.by_alg[a][c])]]]]

(***************************************************************************)
(* One run of summarize_results.py main over a run directory.              *)
(***************************************************************************)
Absent  == [exists |-> FALSE, rows |-> <<>>]
File(rows) == [exists |-> TRUE, rows |-> rows]

Chars_mldsa44 == <<"m","l","d","s","a","4","4">>

ThroughputCells ==
    { StrVal(<<"1","2",".","0">>), StrVal(<<"8",".","0">>), StrVal(Chars_nan), StrVal(<<"0">>),
      StrVal(Chars_inf) }
OkCells == { None, StrVal(<<>>), StrVal(<<"0">>), StrVal(<<" ","Y","e","s"," ">>) }

\* tls_throughput.csv: with or without the ok column.
ThroughputFiles ==
    { File(rs) : rs \in SeqsUpTo({ [conn_user_sec |-> c] : c \in ThroughputCells }, MaxRows) }
    \cup { File(rs) : rs \in SeqsUpTo({ [conn_user_sec |-> c, ok |-> o]
                                         : c \in ThroughputCells, o \in OkCells }, MaxRows) }

LatencyRow(p50, p95, p99, mean, fail, ok) ==
    [p50_ms |-> StrVal(p50), p95_ms |-> StrVal(p95), p99_ms |-> StrVal(p99),
     mean_ms |-> StrVal(mean), fail |-> StrVal(fail), ok |-> StrVal(ok)]

LatencyRows ==
    { LatencyRow(<<"1">>, <<"2">>, <<"4">>, <<"2",".","5">>, <<"1">>, <<"3">>),
      LatencyRow(<<"3">>, <<"2">>, Chars_nan, <<>>, <<"0">>, <<"0">>),
      LatencyRow(Chars_nan, <<>>, <<"n","a">>, <<"x">>, <<>>, <<>>),
      LatencyRow(Chars_inf, <<"5">>, <<"5">>, <<"5">>, <<"2">>, Chars_inf) }

\* tls_latency_summary.csv: with or without the fail and ok columns.
LatencyFiles ==
    { File(rs) : rs \in SeqsUpTo(LatencyRows, MaxRows) }
    \cup { File(rs) : rs \in SeqsUpTo({ [p50_ms |-> StrVal(<<"1">>), p95_ms |-> StrVal(<<"2">>),
                                          p99_ms |-> StrVal(<<"4">>), mean_ms |-> None] },
                                       MaxRows) }

SigCells ==
    { [alg |-> StrVal(Chars_mldsa44), keygens_s |-> StrVal(<<"5">>),
       sign_s |-> StrVal(<<"1","0","0">>), verify_s |-> StrVal(<<"5","0">>)],
      [alg |-> StrVal(Chars_mldsa44), keygens_s |-> StrVal(<<"7">>),
       sign_s |-> StrVal(Chars_nan), verify_s |-> StrVal(<<"5","1">>)],
      [alg |-> StrVal(<<" ">> \o Chars_ecdsap256 \o <<" ">>), keygens_s |-> StrVal(<<>>),
       sign_s |-> StrVal(<<"2","0">>), verify_s |-> StrVal(<<"1","0">>)],
      [alg |-> StrVal(<<>>), keygens_s |-> StrVal(<<"5">>),
       sign_s |-> StrVal(<<"1","0","0">>), verify_s |-> StrVal(<<"5","0">>)] }
SigOkCells == { StrVal(<<>>), StrVal(<<"0">>), StrVal(<<"1">>) }

\* sig_speed.csv: with or without the ok column.
SigFiles ==
    { File(rs) : rs \in SeqsUpTo(SigCells, MaxRows) }
    \cup { File(rs) : rs \in SeqsUpTo({ r @@ [ok |-> o] : r \in SigCells, o \in SigOkCells },
                                       MaxRows) }

\* Run directories: one of the three files, none, or all three.
RunDirs ==
    { [tp |-> t, lat |-> Absent, sig |-> Absent] : t \in ThroughputFiles \cup {Absent} }
    \cup { [tp |-> Absent, lat |-> l, sig |-> Absent] : l \in LatencyFiles }
    \cup { [tp |-> Absent, lat |-> Absent, sig |-> s] : s \in SigFiles }
    \cup { [tp |-> t, lat |-> l, sig |-> s]
           : t \in { File(rs) : rs \in SeqsUpTo({ [conn_user_sec |-> StrVal(<<"1","2",".","0">>)] }, 1) },
             l \in { File(rs) : rs \in SeqsUpTo({ [p50_ms |-> StrVal(<<"1">>)] }, 1) },
             s \in { File(rs) : rs \in SeqsUpTo({ [alg |-> StrVal(Chars_mldsa44)] }, 1) } }

\* The tables of draws for the series lengths 2..n.
RECURSIVE DrawTables(_)
DrawTables(n) ==
    IF n < 2 THEN { <<>> }
    ELSE { t @@ (n :> d) : t \in DrawTables(n - 1),
                           d \in [1..DefaultIters -> [1..n -> 0..(n - 1)]] }

InitMain ==
    /\ mpc = "throughput"
    /\ mfiles \in RunDirs
    /\ mrng \in DrawTables(MaxRows)
    /\ mout = <<>>
    /\ mjs = [run_dir |-> "run_dir", quality |-> <<>>, tls_throughput |-> <<>>,
              tls_latency |-> <<>>, sig_speed |-> <<>>]
    /\ mdisk = <<>>
    /\ IdleCoerce /\ IdleExtract /\ IdleStats

\* Lines 78-110: the TLS throughput section.
Throughput ==
    /\ mpc = "throughput"
    /\ IF mfiles.tp.exists
       THEN \E r \in { throughput_section(mfiles.tp.rows, mrng) } :
               IF r.crashed
               THEN mpc' = "crashed" /\ UNCHANGED <<mout, mjs>>
               ELSE /\ mpc' = "latency"
                    /\ mout' = mout \o r.out
                    /\ mjs' = [mjs EXCEPT !.tls_throughput = r.js]
       ELSE mpc' = "latency" /\ UNCHANGED <<mout, mjs>>
    /\ UNCHANGED <<mfiles, mrng, mdisk, coerceVars, extractVars, statsVars>>

\* Lines 115-172: the TLS latency section.
Latency ==
    /\ mpc = "latency"
    /\ IF mfiles.lat.exists
       THEN \E r \in { latency_section(mfiles.lat.rows, mrng) } :
               IF r.crashed
               THEN mpc' = "crashed" /\ UNCHANGED <<mout, mjs>>
               ELSE /\ mpc' = "sig_speed"
                    /\ mout' = mout \o r.out
                    /\ mjs' = [mjs EXCEPT !.tls_latency = r.js]
       ELSE mpc' = "sig_speed" /\ UNCHANGED <<mout, mjs>>
    /\ UNCHANGED <<mfiles, mrng, mdisk, coerceVars, extractVars, statsVars>>

\* Lines 177-213: the signature speed section.
SigSpeed ==
    /\ mpc = "sig_speed"
    /\ IF mfiles.sig.exists
       THEN \E r \in { sig_section(mfiles.sig.rows) } :
               IF r.crashed
               THEN mpc' = "crashed" /\ UNCHANGED <<mout, mjs>>
               ELSE /\ mpc' = "write"
                    /\ mout' = mout \o r.out
                    /\ mjs' = [mjs EXCEPT !.sig_speed = r.js]
       ELSE mpc' = "write" /\ UNCHANGED <<mout, mjs>>
    /\ UNCHANGED <<mfiles, mrng, mdisk, coerceVars, extractVars, statsVars>>

\* Lines 219-232: the quality summary, paper_summary.json and paper_tables.md.
WriteOutputs ==
    /\ mpc = "write"
    /\ \E js \in { [mjs EXCEPT !.quality =
                       [has_tls_throughput_csv |-> mfiles.tp.exists,
                        has_tls_latency_summary_csv |-> mfiles.lat.exists,
                        has_sig_speed_csv |-> mfiles.sig.exists]] } :
          /\ mjs' = js
          /\ mdisk' = [json |-> json_dump(js),
                       md |-> <<OutLine("title", "title", <<>>)>> \o mout]
    /\ mpc' = "done"
    /\ UNCHANGED <<mfiles, mrng, mout, coerceVars, extractVars, statsVars>>

NextMain == Throughput \/ Latency \/ SigSpeed \/ WriteOutputs
SpecMain == InitMain /\ [][NextMain]_vars

(***************************************************************************)
(* Properties.                                                             *)
(***************************************************************************)
\* The values a series holds besides MISSING, in order (stated independently
\* of clean).
RECURSIVE Valid(_)
Valid(s) ==
    IF s = <<>> THEN <<>>
    ELSE IF Head(s).k = "nan" THEN Valid(Tail(s))
    ELSE <<Head(s)>> \o Valid(Tail(s))

IsFloat(x) == x.k \in {"nan", "inf", "ninf", "fin"}

\* The missing tokens the specification lists for the coercer.
SpecMissingTokens ==
    { <<>>, <<"n","a","n">>, <<"n","a">>, <<"n","o","n","e">>, <<"n","u","l","l">> }

\* C2: to_float is total - for None, a number, any text or any other object it
\* returns a float or MISSING and never raises - and every text that, trimmed
\* and lower-cased, is one of "", "nan", "na", "none", "null" yields MISSING.
C2_to_float_total ==
    cpc # "call" =>
        /\ cpc = "returned"
        /\ IsFloat(cres)
        /\ (cx.t = "str" /\ lower(strip(cx.s)) \in SpecMissingTokens => isnan(cres))
        /\ (cx.t = "none" => isnan(cres))

\* C2's case: the text " nuLL"-like (null in mixed case, padded) was coerced.
C2_witness ==
    /\ cpc = "returned" /\ cx.t = "str"
    /\ lower(strip(cx.s)) = <<"n","u","l","l">>
    /\ cx.s # <<"n","u","l","l">>

\* C3: mean_std discards MISSING entries first; with n values left, n = 0 gives
\* (MISSING, MISSING) and n = 1 gives (the value, exactly 0), wherever the
\* MISSING entries stand in the series.
C3_mean_std_degenerate ==
    spc \in {"ms_returned", "ms_raised"} =>
        /\ (Len(Valid(svals)) = 0 => spc = "ms_returned" /\ sms = <<NaN, NaN>>)
        /\ (Len(Valid(svals)) = 1 =>
                spc = "ms_returned" /\ sms = <<Valid(svals)[1], Fin(0, 1)>>)

\* C3's case: a three-entry series with MISSING first and last and one value.
C3_witness ==
    /\ spc = "ms_returned" /\ Len(svals) = 3
    /\ isnan(svals[1]) /\ ~isnan(svals[2]) /\ isnan(svals[3])
    /\ sms[2] = Fin(0, 1)

\* C4: with fewer than 2 non-missing values bootstrap_ci returns
\* (MISSING, MISSING) for either statistic, any alpha and any iteration count
\* (0 and 1 included), without drawing from the generator and without raising.
C4_bootstrap_too_few ==
    (spc \in {"ci_loop", "ci_returned", "ci_raised"} /\ Len(Valid(svals)) < 2) =>
        /\ spc = "ci_returned"
        /\ sci = <<NaN, NaN>>
        /\ srng = 0 /\ sstats = <<>>

\* C4's case: one value among MISSING entries, median, zero iterations.
C4_witness ==
    /\ spc = "ci_returned" /\ Len(svals) >= 2 /\ Len(Valid(svals)) = 1
    /\ sstat = "median" /\ siters = 0 /\ salpha # DefaultAlpha

AllEqual(s) == \A i \in 1..Len(s) : s[i] = s[1]

\* C5: for a series whose non-missing values all equal one constant c, at
\* least 2 of them, bootstrap_ci returns exactly (c, c), for mean and median,
\* every seed and every iteration count >= 1.
C5_constant_series ==
    (/\ spc \in {"ci_returned", "ci_raised"}
     /\ Len(Valid(svals)) >= 2 /\ AllEqual(Valid(svals)) /\ siters >= 1) =>
        /\ spc = "ci_returned"
        /\ sci = <<Valid(svals)[1], Valid(svals)[1]>>

MinOf(s) == CHOOSE x \in {s[i] : i \in 1..Len(s)} :
                \A j \in 1..Len(s) : FLeq(x, s[j])
MaxOf(s) == CHOOSE x \in {s[i] : i \in 1..Len(s)} :
                \A j \in 1..Len(s) : FLeq(s[j], x)

\* C10: with at least 2 non-missing values, the default alpha and an iteration
\* count >= 1, both quantile indices lie in [0, iterations-1] with
\* low index <= high index, and min(values) <= low <= high <= max(values).
C10_bounds_within_range ==
    (/\ spc \in {"ci_returned", "ci_raised"}
     /\ Len(Valid(svals)) >= 2 /\ siters >= 1 /\ salpha = DefaultAlpha) =>
        /\ spc = "ci_returned"
        /\ LoIdx(siters, salpha) \in 0..(siters - 1)
        /\ HiIdx(siters, salpha) \in 0..(siters - 1)
        /\ LoIdx(siters, salpha) <= HiIdx(siters, salpha)
        /\ FLeq(MinOf(Valid(svals)), sci[1])
        /\ FLeq(sci[1], sci[2])
        /\ FLeq(sci[2], MaxOf(Valid(svals)))

\* The lines of the raw text as token lists, and what the claims say of them.
IsEcdsaRun == strip(ealg) = Chars_ecdsap256
LeadIs(toks, alg) == toks # <<>> /\ toks[1] = alg
LastN(nums, n) == SubSeq(nums, Len(nums) - n + 1, Len(nums))
FirstLine(P(_)) == CHOOSE i \in 1..Len(etoks) :
                       P(etoks[i]) /\ \A j \in 1..(i - 1) : ~P(etoks[j])
SomeLine(P(_)) == \E i \in 1..Len(etoks) : P(etoks[i])

\* C6: extraction for ecdsap256 never produces a key-generation value - for
\* every text and whichever strategy matched, the keygen field of the result
\* is empty and the printed CSV fragment has an empty first field.
C6_ecdsa_no_keygen ==
    (epc = "exited" /\ IsEcdsaRun) =>
        /\ (eres # NotFound => eres[1] = <<>> /\ eexit = 0)
        /\ (eexit = 0 => eout # <<>> /\ eout[1] = ",")
        /\ (eres = NotFound => eexit = 2)

\* C6's case: an ecdsap256 row with four numeric columns was extracted.
C6_witness ==
    /\ epc = "exited" /\ IsEcdsaRun /\ eexit = 0
    /\ \E i \in 1..Len(etoks) : LeadIs(etoks[i], Chars_ecdsap256)
                                   /\ Len(NumsOf(etoks[i])) = 4
    /\ eres = <<<<>>, Tok.n3, Tok.n4>>

\* C7, as claimed: on the first line whose leading token equals the identifier
\* parse_pqc_row returns the last three numeric tokens of that line, whatever
\* the whitespace; NOT_FOUND when no line has that leading token.
C7_first_leading_line ==
    (epc = "exited" /\ ~IsEcdsaRun) =>
        LET LeadAlg(toks) == LeadIs(toks, strip(ealg))
        IN  IF SomeLine(LeadAlg)
            THEN LET nums == NumsOf(etoks[FirstLine(LeadAlg)])
                 IN  Len(nums) >= 3 /\ eres = LastN(nums, 3)
            ELSE eres = NotFound

\* C7, amended: the line that decides is the first whose leading token equals
\* the identifier and that holds at least three numeric tokens; NOT_FOUND
\* exactly when there is no such line.
C7_first_leading_line_with_three ==
    (epc = "exited" /\ ~IsEcdsaRun) =>
        LET Row(toks) == LeadIs(toks, strip(ealg)) /\ Len(NumsOf(toks)) >= 3
        IN  IF SomeLine(Row)
            THEN eres = LastN(NumsOf(etoks[FirstLine(Row)]), 3) /\ eexit = 0
            ELSE eres = NotFound /\ eexit = 2

\* C7's case: the first line led by the identifier has too few numbers, a later
\* one, indented and tab-separated, has four; its last three are returned.
C7_witness ==
    /\ epc = "exited" /\ ~IsEcdsaRun /\ estyle = 2 /\ Len(etoks) = 2
    /\ etoks[1] = <<Tok.mldsa65, Tok.n1, Tok.n2>>
    /\ etoks[2] = <<Tok.mldsa65, Tok.n1, Tok.n2, Tok.n3, Tok.n4>>
    /\ eres = <<Tok.n2, Tok.n3, Tok.n4>>

\* A line qualifies under strategy k: it passes the k-th test and holds at
\* least two numeric tokens.
Qualifies(k, toks) ==
    /\ Len(NumsOf(toks)) >= 2
    /\ LET line == Join(toks, <<" ">>)
       IN  CASE k = 1 -> Match1(line) [] k = 2 -> Match2(line) [] OTHER -> Match3(line)

\* C9: the strategies are tried in the order exact-prefix, alias-pattern,
\* keyword-size, each over the whole text: the result is that of the first
\* line qualifying under the first strategy under which any line qualifies,
\* so an exact-prefix line wins over an earlier looser line; NOT_FOUND only
\* when no line qualifies under any of the three.
C9_strategy_order ==
    (epc = "exited" /\ IsEcdsaRun) =>
        LET Q1(toks) == Qualifies(1, toks)
            Q2(toks) == Qualifies(2, toks)
            Q3(toks) == Qualifies(3, toks)
            Res(i) == <<<<>>>> \o LastN(NumsOf(etoks[i]), 2)
        IN  IF SomeLine(Q1) THEN eres = Res(FirstLine(Q1))
            ELSE IF SomeLine(Q2) THEN eres = Res(FirstLine(Q2))
            ELSE IF SomeLine(Q3) THEN eres = Res(FirstLine(Q3))
            ELSE eres = NotFound

\* C9's case: a keyword-size line comes first, an exact-prefix line second, and
\* the result is the second line's.
C9_witness ==
    /\ epc = "exited" /\ IsEcdsaRun /\ Len(etoks) = 2
    /\ etoks[1] = <<Tok.bits256, Tok.ECDSA, Tok.n1, Tok.n2>>
    /\ etoks[2] = <<Tok.ecdsap256, Tok.n1, Tok.n2, Tok.n3, Tok.n4>>
    /\ eres = <<<<>>, Tok.n3, Tok.n4>>

\* What a strict JSON document allows where a number is expected.
StrictJson(t) == t.tok \in {"number", "null"}
NoNanText(cells) == \A i \in 1..Len(cells) : cells[i] # <<"n","a","n">>
SigColumns == {"keygens_s", "sign_s", "verify_s"}
\* The two cells (mean, std) of a column in a row of the signature table.
SigCellsOf(cells, col) ==
    CASE col = "keygens_s" -> SubSeq(cells, 2, 3)
      [] col = "sign_s"    -> SubSeq(cells, 4, 5)
      [] OTHER             -> SubSeq(cells, 6, 7)

\* C1: a series with no valid value (n = 0) is never rendered as the text
\* "nan" in paper_tables.md, and its numeric fields in paper_summary.json are
\* numbers or null - in the throughput, latency and signature-speed sections.
C1_no_nan_rendered ==
    mpc = "done" =>
        /\ (mfiles.tp.exists /\ mjs.tls_throughput.n = 0) =>
              /\ \A i \in 1..Len(mdisk.md) :
                    mdisk.md[i].sec = "tls_throughput" => NoNanText(mdisk.md[i].cells)
              /\ StrictJson(mdisk.json.tls_throughput.mean)
              /\ StrictJson(mdisk.json.tls_throughput.std)
              /\ StrictJson(mdisk.json.tls_throughput.median)
              /\ \A j \in 1..2 : /\ StrictJson(mdisk.json.tls_throughput.ci95_mean[j])
                                 /\ StrictJson(mdisk.json.tls_throughput.ci95_median[j])
        /\ mfiles.lat.exists =>
              \A m \in 1..Len(LatencyMetrics) :
                 mjs.tls_latency[LatencyMetrics[m]].n = 0 =>
                    /\ \A i \in 1..Len(mdisk.md) :
                          (mdisk.md[i].sec = "tls_latency"
                           /\ mdisk.md[i].line = LatencyMetrics[m])
                             => NoNanText(mdisk.md[i].cells)
                    /\ StrictJson(mdisk.json.tls_latency[LatencyMetrics[m]].mean)
                    /\ StrictJson(mdisk.json.tls_latency[LatencyMetrics[m]].std)
                    /\ StrictJson(mdisk.json.tls_latency[LatencyMetrics[m]].median)
        /\ mfiles.sig.exists =>
              \A a \in DOMAIN mjs.sig_speed.by_alg : \A c \in SigColumns :
                 mjs.sig_speed.by_alg[a][c].n = 0 =>
                    /\ \A i \in 1..Len(mdisk.md) :
                          (mdisk.md[i].sec = "sig_speed" /\ mdisk.md[i].line = "row"
                           /\ mdisk.md[i].cells[1] = a)
                             => NoNanText(SigCellsOf(mdisk.md[i].cells, c))
                    /\ StrictJson(mdisk.json.sig_speed.by_alg[a][c].mean)
                    /\ StrictJson(mdisk.json.sig_speed.by_alg[a][c].std)

\* The truthy tokens the specification lists for the validity column.
SpecTruthyTokens ==
    { <<"1">>, <<"t","r","u","e">>, <<"y","e","s">>, <<"y">>, <<"o","k">> }

\* A row passes the validity filter: the schema has no ok column, or the row's
\* value is absent or empty, or it is a truthy token in any case.
RowValid(r) ==
    \/ "ok" \notin DOMAIN r
    \/ r.ok.t = "none"
    \/ strip(r.ok.s) = <<>>
    \/ lower(strip(r.ok.s)) \in SpecTruthyTokens

ValidRows(rows) == SelectSeq(rows, RowValid)
Positive(vals) == LET Pos(v) == FLess(Fin(0, 1), v) IN SelectSeq(vals, Pos)

\* C8: when the schema has the ok column, rows whose ok value is neither
\* empty/absent nor a truthy token contribute to no series, n, mean or std,
\* in the throughput section and in the per-algorithm signature-speed section
\* alike; rows with an absent or empty ok value are kept.
C8_validity_filter ==
    mpc = "done" =>
        /\ mfiles.tp.exists =>
              LET kept == Positive(Column(ValidRows(mfiles.tp.rows), "conn_user_sec"))
              IN  /\ mjs.tls_throughput.n = Len(kept)
                  /\ <<mjs.tls_throughput.mean, mjs.tls_throughput.std>> = mean_std(kept)
        /\ mfiles.sig.exists =>
              LET kept == ValidRows(mfiles.sig.rows)
              IN  /\ DOMAIN mjs.sig_speed.by_alg
                        = { sig_alg(kept[i]) : i \in 1..Len(kept) } \ {<<>>}
                  /\ \A a \in DOMAIN mjs.sig_speed.by_alg : \A c \in SigColumns :
                        mjs.sig_speed.by_alg[a][c]
                           = column_stat(Column(AlgRows(kept, a), c))

\* C8 for the throughput section alone, which does apply the filter.
C8_throughput_filter ==
    (mpc = "done" /\ mfiles.tp.exists) =>
        LET kept == Positive(Column(ValidRows(mfiles.tp.rows), "conn_user_sec"))
        IN  /\ mjs.tls_throughput.n = Len(kept)
            /\ <<mjs.tls_throughput.mean, mjs.tls_throughput.std>> = mean_std(kept)

====
